---- MODULE Spec2Model ----
(***************************************************************************)
(* A model of md5_fitgirl.py: the manifest locator (find_md5_file), the    *)
(* manifest parser (parse_md5_file), the chunked hasher (md5_hash_file)    *)
(* and the verification driver (main).                                     *)
(*                                                                         *)
(* Text is a sequence of one-character strings, file content a sequence of *)
(* byte values.  The digest algorithm of hashlib is replaced by a small    *)
(* streaming digest with the same interface (new / update / hexdigest): it *)
(* has an initial value, folds the bytes in order, and renders a           *)
(* fixed-width lowercase hexadecimal string.                               *)
(*                                                                         *)
(* Spec is a whole run of main; SpecHash is md5_hash_file called with      *)
(* chunk-size hints; SpecFind is find_md5_file on every directory tree.    *)
(***************************************************************************)
EXTENDS Integers, Sequences, FiniteSets, TLC

VARIABLES
    tree,               \* what is on disk at the target path (locator's view)
    target_path,        \* args.path.resolve(), as a sequence of path components
    cwd,                \* Path.cwd(), as a sequence of path components
    manifest,           \* the lines of the located manifest file
    disk,               \* the files next to the manifest: path -> file or Absent
    available_memory,   \* psutil.virtual_memory().available
    hints,              \* chunk-size hints of the hasher's direct callers
    pc,                 \* position in the program
    md5_file,           \* main: result of find_md5_file
    entries,            \* parse_md5_file: the list being built / main: its result
    entry_line,         \* history: the manifest line each entry came from
    lineno,             \* parse_md5_file: number of lines consumed
    idx,                \* main: index of the entry the for loop is at
    Missing_files,
    ok_files,
    failed_files,
    open_files,         \* the file handles currently open
    hf,                 \* the frame of md5_hash_file
    actual_hash,        \* the value md5_hash_file returned last
    output,             \* what main printed: one record per message
    hash_calls,         \* history: the entry indexes md5_hash_file was called for
    digests,            \* the digests collected by the hasher's direct caller
    exit_status         \* process exit status, -1 while running

vars == << tree, target_path, cwd, manifest, disk, available_memory, hints, pc,
           md5_file, entries, entry_line, lineno, idx, Missing_files, ok_files,
           failed_files, open_files, hf, actual_hash, output, hash_calls,
           digests, exit_status >>

-----------------------------------------------------------------------------
(* Bounds of the model *)

\* longest file content, in bytes, the hasher is tried on
MaxLen == 3
\* most lines in a manifest
MaxLines == 2

ByteVals == {0, 1}

-----------------------------------------------------------------------------
(* Text helpers *)

Min(a, b) == IF a <= b THEN a ELSE b

SeqsUpTo(S, n) == UNION { [1..k -> S] : k \in 0..n }

Drop(s, n) == SubSeq(s, n + 1, Len(s))

Take(s, n) == SubSeq(s, 1, n)

StartsWith(s, p) == Len(s) >= Len(p) /\ Take(s, Len(p)) = p

EndsWith(s, p) == Len(s) >= Len(p) /\ Drop(s, Len(s) - Len(p)) = p

\* str.find: the first index at which p occurs in s, 0 when it does not occur
Find(s, p) ==
    LET hits == { i \in 1..(Len(s) - Len(p) + 1) : SubSeq(s, i, i + Len(p) - 1) = p }
    IN  IF hits = {} THEN 0 ELSE CHOOSE i \in hits : \A j \in hits : i <= j

\* str.rfind for a single character: the last index of c in s, 0 when absent
RFindChar(s, c) ==
    LET hits == { i \in 1..Len(s) : s[i] = c }
    IN  IF hits = {} THEN 0 ELSE CHOOSE i \in hits : \A j \in hits : i >= j

IsSpace(c) == c \in {" ", "\t", "\r", "\n"}

RECURSIVE LStrip(_)
LStrip(s) == IF s # <<>> /\ IsSpace(Head(s)) THEN LStrip(Tail(s)) ELSE s

RECURSIVE RStrip(_)
RStrip(s) == IF s # <<>> /\ IsSpace(s[Len(s)]) THEN RStrip(Take(s, Len(s) - 1)) ELSE s

\* str.strip()
Strip(s) == RStrip(LStrip(s))

\* str.split(sep) without maxsplit: every occurrence of sep separates two parts
RECURSIVE Split(_, _)
Split(s, sep) ==
    LET i == Find(s, sep)
    IN  IF i = 0 THEN << s >>
        ELSE << Take(s, i - 1) >> \o Split(Drop(s, i + Len(sep) - 1), sep)

\* str.join
RECURSIVE Join(_, _)
Join(parts, sep) ==
    IF parts = <<>> THEN <<>>
    ELSE IF Len(parts) = 1 THEN parts[1]
    ELSE parts[1] \o sep \o Join(Tail(parts), sep)

LowerChar(c) ==
    CASE c = "A" -> "a" [] c = "B" -> "b" [] c = "C" -> "c"
      [] c = "D" -> "d" [] c = "E" -> "e" [] c = "F" -> "f"
      [] c = "Z" -> "z" [] OTHER -> c

UpperChar(c) ==
    CASE c = "a" -> "A" [] c = "b" -> "B" [] c = "c" -> "C"
      [] c = "d" -> "D" [] c = "e" -> "E" [] c = "f" -> "F"
      [] c = "z" -> "Z" [] OTHER -> c

\* str.lower()
Lower(s) == [i \in 1..Len(s) |-> LowerChar(s[i])]

Upper(s) == [i \in 1..Len(s) |-> UpperChar(s[i])]

\* str.replace('\\', '/')
ReplaceBackslash(s) == [i \in 1..Len(s) |-> IF s[i] = "\\" THEN "/" ELSE s[i]]

\* the loop body of posixpath.normpath over the components of the path
RECURSIVE NormComps(_, _, _)
NormComps(comps, new_comps, initial_slashes) ==
    IF comps = <<>> THEN new_comps
    ELSE LET comp == Head(comps)
             n    == Len(new_comps)
         IN  IF comp \in { <<>>, <<".">> }
               THEN NormComps(Tail(comps), new_comps, initial_slashes)
             ELSE IF \/ comp # <<".", ".">>
                     \/ (initial_slashes = 0 /\ n = 0)
                     \/ (n > 0 /\ new_comps[n] = <<".", ".">>)
               THEN NormComps(Tail(comps), Append(new_comps, comp), initial_slashes)
             ELSE IF n > 0
               THEN NormComps(Tail(comps), Take(new_comps, n - 1), initial_slashes)
             ELSE NormComps(Tail(comps), new_comps, initial_slashes)

\* os.path.normpath (POSIX flavour)
normpath(path) ==
    IF path = <<>> THEN <<".">>
    ELSE LET initial_slashes ==
                 IF ~StartsWith(path, <<"/">>) THEN 0
                 ELSE IF StartsWith(path, <<"/", "/">>) /\ ~StartsWith(path, <<"/", "/", "/">>)
                   THEN 2 ELSE 1
             joined == Join(NormComps(Split(path, <<"/">>), <<>>, initial_slashes), <<"/">>)
             res    == [i \in 1..initial_slashes |-> "/"] \o joined
         IN  IF res = <<>> THEN <<".">> ELSE res

-----------------------------------------------------------------------------
(* The digest object: hashlib.md5() / update / hexdigest *)

HexChars == << "0", "1", "2", "3", "4", "5", "6", "7",
               "8", "9", "a", "b", "c", "d", "e", "f" >>

\* hashlib.md5(): a fresh digest; fed is the history of the bytes given to it
md5_new == [h |-> 171, fed |-> <<>>]

\* md5.update(chunk): the bytes are folded in, in order
RECURSIVE md5_update(_, _)
md5_update(m, chunk) ==
    IF chunk = <<>> THEN m
    ELSE md5_update([h   |-> (m.h * 3 + Head(chunk) + 1) % 256,
                     fed |-> Append(m.fed, Head(chunk))], Tail(chunk))

\* md5.hexdigest(): fixed width, lowercase hexadecimal
md5_hexdigest(m) == << HexChars[(m.h \div 16) + 1], HexChars[(m.h % 16) + 1] >>

-----------------------------------------------------------------------------
(* Sizes.  Memory sizes exceed 32 bits, so a size is a pair <<g, r>> that   *)
(* stands for g * 2^30 + r bytes, with r < 2^30 for sizes that are not an   *)
(* explicit hint.                                                           *)

GiB == 1024 * 1024 * 1024

SizeLeq(a, b) == a[1] < b[1] \/ (a[1] = b[1] /\ a[2] <= b[2])

SizeMin(a, b) == IF SizeLeq(a, b) THEN a ELSE b

\* a // 2
SizeHalf(a) == << a[1] \div 2, (a[1] % 2) * (GiB \div 2) + (a[2] \div 2) >>

\* min(available_memory // 2, 6 * 1024**3)
get_max_chunk_size(available) == SizeMin(SizeHalf(available), << 6, 0 >>)

\* chunk_size as md5_hash_file uses it: the hint, or get_max_chunk_size() when
\* the hint is None (a hint is <<>> for None and <<n>> for the integer n)
chunk_size_of(hint, available) ==
    IF hint = <<>> THEN get_max_chunk_size(available) ELSE << 0, hint[1] >>

\* read_size = min(chunk_size, 8 * 1024**2); it is below 2^30, so an integer
read_size_of(chunk_size) == SizeMin(chunk_size, << 0, 8 * 1024 * 1024 >>)[2]

\* f.read(n) at offset fpos of a file holding content: "ValueError" for n < -1,
\* everything left for n = -1, else at most n bytes
FileRead(content, fpos, n) ==
    IF n < -1 THEN [error |-> TRUE, data |-> <<>>]
    ELSE IF n = -1 THEN [error |-> FALSE, data |-> Drop(content, fpos)]
    ELSE [error |-> FALSE, data |-> SubSeq(content, fpos + 1, Min(fpos + n, Len(content)))]

-----------------------------------------------------------------------------
(* parse_md5_file, one line *)

Separator == << " ", "*" >>

\* parse_line without checksum.lower()
parse_line_NoLower(raw) ==
    LET line == Strip(raw)
    IN  IF line = <<>> \/ StartsWith(line, << ";" >>)
          THEN [kind |-> "skip", entry |-> << >>]
        ELSE LET parts == Split(line, Separator)
             IN  IF Len(parts) = 2
                   THEN [kind  |-> "entry",
                         entry |-> << parts[1], normpath(ReplaceBackslash(parts[2])) >>]
                 ELSE [kind |-> "invalid", entry |-> << >>]

\* the body of the for loop: what one line of the manifest contributes
parse_line(raw) ==
    LET line == Strip(raw)
    IN  IF line = <<>> \/ StartsWith(line, << ";" >>)
          THEN [kind |-> "skip", entry |-> << >>]
        ELSE LET parts == Split(line, Separator)
             IN  IF Len(parts) = 2
                   THEN [kind  |-> "entry",
                         entry |-> << Lower(parts[1]),
                                      normpath(ReplaceBackslash(parts[2])) >>]
                 ELSE [kind |-> "invalid", entry |-> << >>]

-----------------------------------------------------------------------------
(* find_md5_file.  A node of the tree is [name, kind, children], kind one   *)
(* of "absent", "file", "dir"; a path is the sequence of names below the    *)
(* target.                                                                  *)

Md5Ext == << ".", "m", "d", "5" >>

Md5Dir == << "m", "d", "5" >>

\* PurePath.suffix of a final component
Suffix(name) ==
    LET i == RFindChar(name, ".")
    IN  IF 1 < i /\ i < Len(name) THEN Drop(name, i - 1) ELSE <<>>

\* directory.glob("*.md5"): the entries of the listing whose name matches
Glob(children) == { c \in children : EndsWith(c.name, Md5Ext) }

NotFound == [found |-> FALSE, path |-> <<>>, kind |-> "absent"]

Located(path, kind) == [found |-> TRUE, path |-> path, kind |-> kind]

\* the values find_md5_file(target) can return: md5_files[0] is whichever
\* match the directory listing yields first
find_md5_file(target) ==
    IF target.kind = "file" /\ Suffix(target.name) = Md5Ext
      THEN { Located(<<>>, "file") }
    ELSE IF target.kind = "dir"
      THEN LET md5_files == Glob(target.children)
               subs      == { c \in target.children : c.name = Md5Dir /\ c.kind = "dir" }
               sub_files == UNION { Glob(c.children) : c \in subs }
           IN  IF md5_files # {}
                 THEN { Located(<< c.name >>, c.kind) : c \in md5_files }
               ELSE IF sub_files # {}
                 THEN { Located(<< Md5Dir, c.name >>, c.kind) : c \in sub_files }
               ELSE { NotFound }
    ELSE { NotFound }

\* PurePath.relative_to(base) succeeds exactly when base is a prefix of the path
IsRelativeTo(path, base) == Len(base) <= Len(path) /\ Take(path, Len(base)) = base

-----------------------------------------------------------------------------
(* The inputs the model is run on *)

NameA   == << "a", ".", "m", "d", "5" >>
NameB   == << "b", ".", "m", "d", "5" >>
NameC   == << "c", ".", "m", "d", "5" >>
NameD   == << "d", ".", "m", "d", "5" >>
NameTxt == << "n", ".", "t", "x", "t" >>
NameT   == << "t" >>

Node(name, kind, children) == [name |-> name, kind |-> kind, children |-> children]

FileNode(name) == Node(name, "file", {})

\* every tree the locator is tried on: no target, a file, or a directory with
\* any listing of files and directories, with or without an md5 entry
AllTrees ==
    { Node(NameT, "absent", {}) }
    \cup { FileNode(n) : n \in { NameA, NameTxt, Md5Dir } }
    \cup { Node(NameT, "dir", direct \cup sub) :
             direct \in SUBSET { FileNode(NameA), Node(NameB, "dir", {}), FileNode(NameTxt) },
             sub \in { {} , { FileNode(Md5Dir) } }
                     \cup { { Node(Md5Dir, "dir", inner) } :
                              inner \in SUBSET { FileNode(NameC), Node(NameD, "dir", {}),
                                                 FileNode(NameTxt) } } }

\* the trees a whole run is tried on
MainTrees ==
    { Node(NameT, "absent", {}),
      FileNode(NameA),
      FileNode(NameTxt),
      Node(NameT, "dir", { FileNode(NameA), FileNode(NameTxt) }),
      Node(NameT, "dir", { Node(NameB, "dir", {}) }),
      Node(NameT, "dir", { Node(Md5Dir, "dir", { FileNode(NameC) }) }) }

Root == << << "r" >> >>

Elsewhere == << << "o" >> >>

Contents == SeqsUpTo(ByteVals, MaxLen)

\* the digest of a whole content, given in one piece
HexDigestOf(content) == md5_hexdigest(md5_update(md5_new, content))

Absent == [kind |-> "absent", content |-> <<>>, fault |-> "none"]

\* a file on disk; fault says what goes wrong with it: nothing, open() raises
\* (a directory, no permission), or a read() raises (a disk error)
DiskFile(content, fault) == [kind |-> "file", content |-> content, fault |-> fault]

PathA == << "a" >>
PathB == << "B" >>

ManifestLine(checksum, path) == checksum \o Separator \o path

\* the lines manifests are made of: valid lines in upper and lower case, a
\* path to normalise, a comment, a blank line, a line without separator and a
\* line whose path holds the separator
MainLines ==
    { ManifestLine(Upper(HexDigestOf(<< >>)), PathA),
      ManifestLine(HexDigestOf(<< 1, 1 >>), << ".", "\\", "a" >>),
      ManifestLine(Upper(HexDigestOf(<< 1, 1 >>)), PathB),
      << ";", " ", "*", "a" >>,
      << " " >>,
      << "z", "z" >>,
      ManifestLine(HexDigestOf(<< >>), << "a", " ", "*", "B" >>) }

MainDisks ==
    { (PathA :> fa) @@ (PathB :> fb) :
        fa \in { Absent, DiskFile(<< >>, "none"), DiskFile(<< 1, 1 >>, "none"),
                 DiskFile(<< 1, 0 >>, "none"), DiskFile(<< 1, 1 >>, "read"),
                 DiskFile(<< 1, 1 >>, "open") },
        fb \in { Absent, DiskFile(<< 1, 1 >>, "none") } }

\* available memory: 2 bytes (reads of one byte) and 16 GiB (both ceilings
\* bind); a running interpreter is taken to see at least 2 bytes available
MainMemory == { << 0, 2 >>, << 16, 0 >> }

NoFrame == [path |-> <<>>, md5 |-> md5_new, total_size |-> 0, chunk_size |-> << 0, 0 >>,
            read_size |-> 0, bytes_read |-> 0, fpos |-> 0, pbar |-> 0, ret |-> "none"]

\* the program's own variables before main runs
Idle ==
    /\ md5_file = NotFound
    /\ entries = << >>
    /\ entry_line = << >>
    /\ lineno = 0
    /\ idx = 0
    /\ Missing_files = 0
    /\ ok_files = 0
    /\ failed_files = 0
    /\ open_files = {}
    /\ hf = NoFrame
    /\ actual_hash = << >>
    /\ output = << >>
    /\ hash_calls = << >>
    /\ digests = << >>
    /\ exit_status = -1

Init ==
    /\ tree \in MainTrees
    /\ target_path = Root \o << tree.name >>
    /\ cwd \in { Root, Elsewhere }
    /\ manifest \in SeqsUpTo(MainLines, MaxLines)
    /\ disk \in MainDisks
    /\ available_memory \in MainMemory
    /\ hints = << >>
    /\ pc = "main"
    /\ Idle

-----------------------------------------------------------------------------
(* Helpers of the actions *)

Msg(tag, path, expected, found) ==
    [tag |-> tag, path |-> path, expected |-> expected, found |-> found, counts |-> << >>]

\* exists() that takes every path the disk knows for present
Exists_Known(path) == path \in DOMAIN disk

\* Path.exists() of the entry's resolved path
Exists(path) == path \in DOMAIN disk /\ disk[path].kind # "absent"

\* an exception nothing catches: the with blocks close their files, the
\* traceback is printed and the interpreter exits with status 1
Uncaught(exception) ==
    /\ pc' = "crashed"
    /\ open_files' = {}
    /\ output' = Append(output, Msg(exception, << >>, << >>, << >>))
    /\ exit_status' = 1

\* the handle of the open manifest, told apart from the files' paths
ManifestHandle == << "manifest" >>

Env == << tree, target_path, cwd, manifest, disk, available_memory, hints >>

-----------------------------------------------------------------------------
(* main, up to the parse *)

\* lines 81-87: locate the manifest, or report the error and exit(1)
MainLocate ==
    /\ pc = "main"
    /\ \E found \in find_md5_file(tree) :
         /\ md5_file' = found
         /\ IF ~found.found
              THEN /\ output' = Append(output, Msg("ERROR", << >>, << >>, << >>))
                   /\ exit_status' = 1
                   /\ pc' = "exited"
            ELSE /\ pc' = "banner"
                 /\ UNCHANGED << output, exit_status >>
    /\ UNCHANGED << Env, entries, entry_line, lineno, idx, Missing_files, ok_files,
                    failed_files, open_files, hf, actual_hash, hash_calls, digests >>

\* line 89: md5_file.relative_to(Path.cwd()) raises ValueError for a manifest
\* that is not below the working directory
MainBanner ==
    /\ pc = "banner"
    /\ IF IsRelativeTo(target_path \o md5_file.path, cwd)
         THEN /\ output' = Append(output, Msg("USING", md5_file.path, << >>, << >>))
              /\ pc' = "parse"
              /\ UNCHANGED << open_files, exit_status >>
       ELSE Uncaught("ValueError")
    /\ UNCHANGED << Env, md5_file, entries, entry_line, lineno, idx, Missing_files,
                    ok_files, failed_files, hf, actual_hash, hash_calls, digests >>

\* lines 37-38: entries = [], open the manifest (a directory cannot be opened)
ParseOpen ==
    /\ pc = "parse"
    /\ IF md5_file.kind = "file"
         THEN /\ open_files' = open_files \cup { ManifestHandle }
              /\ entries' = << >>
              /\ entry_line' = << >>
              /\ lineno' = 0
              /\ pc' = "parse_loop"
              /\ UNCHANGED << output, exit_status >>
       ELSE /\ Uncaught("IsADirectoryError")
            /\ UNCHANGED << entries, entry_line, lineno >>
    /\ UNCHANGED << Env, md5_file, idx, Missing_files, ok_files, failed_files, hf,
                    actual_hash, hash_calls, digests >>

\* lines 39-49: one iteration of "for line in f"
ParseLine ==
    /\ pc = "parse_loop"
    /\ lineno < Len(manifest)
    /\ LET got == parse_line(manifest[lineno + 1])
       IN  /\ lineno' = lineno + 1
           /\ entries' = IF got.kind = "entry" THEN Append(entries, got.entry) ELSE entries
           /\ entry_line' = IF got.kind = "entry" THEN Append(entry_line, lineno + 1)
                            ELSE entry_line
           /\ output' = IF got.kind = "invalid"
                          THEN Append(output, Msg("INVALID", Strip(manifest[lineno + 1]),
                                                  << >>, << >>))
                        ELSE output
    /\ UNCHANGED << Env, pc, md5_file, idx, Missing_files, ok_files, failed_files,
                    open_files, hf, actual_hash, hash_calls, digests, exit_status >>

\* line 50 and lines 92-94: the file is closed, the list returned, the counters
\* start at zero; the for loop of line 97 is at the first entry
ParseReturn ==
    /\ pc = "parse_loop"
    /\ lineno = Len(manifest)
    /\ open_files' = open_files \ { ManifestHandle }
    /\ Missing_files' = 0
    /\ ok_files' = 0
    /\ failed_files' = 0
    /\ idx' = 1
    /\ pc' = "loop"
    /\ UNCHANGED << Env, md5_file, entries, entry_line, lineno, hf, actual_hash,
                    output, hash_calls, digests, exit_status >>

-----------------------------------------------------------------------------
(* md5_hash_file *)

\* lines 17-21: the frame of a call md5_hash_file(path, hint) that returns to ret
md5_hash_file_frame(path, hint, ret) ==
    LET chunk_size == chunk_size_of(hint, available_memory)
    IN  [path       |-> path,
         md5        |-> md5_new,
         total_size |-> Len(disk[path].content),
         chunk_size |-> chunk_size,
         read_size  |-> read_size_of(chunk_size),
         bytes_read |-> 0,
         fpos       |-> 0,
         pbar       |-> 0,
         ret        |-> ret]

\* lines 23-25: open the file and the progress bar
Md5Open ==
    /\ pc = "md5_open"
    /\ disk[hf.path].fault # "open"
    /\ open_files' = open_files \cup { hf.path }
    /\ pc' = "md5_loop"
    /\ UNCHANGED << Env, md5_file, entries, entry_line, lineno, idx, Missing_files,
                    ok_files, failed_files, hf, actual_hash, output, hash_calls,
                    digests, exit_status >>

\* an open() failure caught by the caller and counted as a FAIL of the entry
Md5OpenFail_Downgraded ==
    /\ pc = "md5_open"
    /\ disk[hf.path].fault = "open"
    /\ output' = Append(output, Msg("FAIL", hf.path, << >>, << >>))
    /\ failed_files' = failed_files + 1
    /\ idx' = idx + 1
    /\ pc' = "loop"
    /\ UNCHANGED << Env, md5_file, entries, entry_line, lineno, Missing_files,
                    ok_files, open_files, hf, actual_hash, hash_calls, digests,
                    exit_status >>

\* line 23: open() raises OSError
Md5OpenFail ==
    /\ pc = "md5_open"
    /\ disk[hf.path].fault = "open"
    /\ Uncaught("OSError")
    /\ UNCHANGED << Env, md5_file, entries, entry_line, lineno, idx, Missing_files,
                    ok_files, failed_files, hf, actual_hash, hash_calls, digests >>

\* lines 26-32: one iteration of the while loop
Md5Read ==
    /\ pc = "md5_loop"
    /\ hf.bytes_read < hf.total_size
    /\ LET got   == FileRead(disk[hf.path].content, hf.fpos, hf.read_size)
           chunk == got.data
       IN  IF got.error
             THEN /\ Uncaught("ValueError")
                  /\ UNCHANGED hf
           ELSE IF chunk = << >>
             THEN /\ pc' = "md5_break"
                  /\ UNCHANGED << hf, open_files, output, exit_status >>
           ELSE /\ hf' = [hf EXCEPT !.md5 = md5_update(@, chunk),
                                    !.bytes_read = @ + Len(chunk),
                                    !.fpos = @ + Len(chunk),
                                    !.pbar = @ + Len(chunk)]
                /\ UNCHANGED << pc, open_files, output, exit_status >>
    /\ UNCHANGED << Env, md5_file, entries, entry_line, lineno, idx, Missing_files,
                    ok_files, failed_files, actual_hash, hash_calls, digests >>

\* line 27: f.read() raises OSError
Md5ReadFail ==
    /\ pc = "md5_loop"
    /\ hf.bytes_read < hf.total_size
    /\ disk[hf.path].fault = "read"
    /\ Uncaught("OSError")
    /\ UNCHANGED << Env, md5_file, entries, entry_line, lineno, idx, Missing_files,
                    ok_files, failed_files, hf, actual_hash, hash_calls, digests >>

\* Md5Return that leaves the file open
Md5Return_NoClose ==
    /\ \/ pc = "md5_loop" /\ hf.bytes_read >= hf.total_size
       \/ pc = "md5_break"
    /\ actual_hash' = md5_hexdigest(hf.md5)
    /\ pc' = hf.ret
    /\ UNCHANGED << Env, md5_file, entries, entry_line, lineno, idx, Missing_files,
                    ok_files, failed_files, open_files, hf, output, hash_calls,
                    digests, exit_status >>

\* line 33, after the loop ended by its condition or by break: the with block
\* closes the file and the digest is returned
Md5Return ==
    /\ \/ pc = "md5_loop" /\ hf.bytes_read >= hf.total_size
       \/ pc = "md5_break"
    /\ open_files' = open_files \ { hf.path }
    /\ actual_hash' = md5_hexdigest(hf.md5)
    /\ pc' = hf.ret
    /\ UNCHANGED << Env, md5_file, entries, entry_line, lineno, idx, Missing_files,
                    ok_files, failed_files, hf, output, hash_calls, digests,
                    exit_status >>

-----------------------------------------------------------------------------
(* main, the verification loop *)

\* MainMissing that forgets the counter
MainMissing_NoCount ==
    /\ pc = "loop"
    /\ idx <= Len(entries)
    /\ ~Exists(entries[idx][2])
    /\ output' = Append(output, Msg("MISSING", entries[idx][2], << >>, << >>))
    /\ idx' = idx + 1
    /\ UNCHANGED << Env, pc, md5_file, entries, entry_line, lineno, Missing_files,
                    ok_files, failed_files, open_files, hf, actual_hash, hash_calls,
                    digests, exit_status >>

\* lines 97-103: the entry's file does not exist
MainMissing ==
    /\ pc = "loop"
    /\ idx <= Len(entries)
    /\ ~Exists(entries[idx][2])
    /\ output' = Append(output, Msg("MISSING", entries[idx][2], << >>, << >>))
    /\ Missing_files' = Missing_files + 1
    /\ idx' = idx + 1
    /\ UNCHANGED << Env, pc, md5_file, entries, entry_line, lineno, ok_files,
                    failed_files, open_files, hf, actual_hash, hash_calls, digests,
                    exit_status >>

\* lines 97-100 and 105: the file exists, md5_hash_file(abs_path) is called
MainHashCall ==
    /\ pc = "loop"
    /\ idx <= Len(entries)
    /\ Exists(entries[idx][2])
    /\ hash_calls' = Append(hash_calls, idx)
    /\ hf' = md5_hash_file_frame(entries[idx][2], << >>, "compare")
    /\ pc' = "md5_open"
    /\ UNCHANGED << Env, md5_file, entries, entry_line, lineno, idx, Missing_files,
                    ok_files, failed_files, open_files, actual_hash, output, digests,
                    exit_status >>

\* lines 106-113: compare and count
MainCompare ==
    /\ pc = "compare"
    /\ LET expected_hash == entries[idx][1]
           rel_path      == entries[idx][2]
       IN  IF actual_hash = expected_hash
             THEN /\ output' = Append(output, Msg("OK", rel_path, << >>, << >>))
                  /\ ok_files' = ok_files + 1
                  /\ UNCHANGED failed_files
           ELSE /\ output' = Append(output, Msg("FAIL", rel_path, expected_hash,
                                                actual_hash))
                /\ failed_files' = failed_files + 1
                /\ UNCHANGED ok_files
    /\ idx' = idx + 1
    /\ pc' = "loop"
    /\ UNCHANGED << Env, md5_file, entries, entry_line, lineno, Missing_files,
                    open_files, hf, actual_hash, hash_calls, digests, exit_status >>

\* lines 115-123: the loop is over, the summary is printed, main returns
MainSummary ==
    /\ pc = "loop"
    /\ idx > Len(entries)
    /\ LET total_files_checked == ok_files + failed_files
       IN  output' = Append(output,
                 [Msg("SUMMARY", << >>, << >>, << >>) EXCEPT
                     !.counts = << total_files_checked, Len(entries), ok_files,
                                   failed_files, Missing_files >>])
    /\ exit_status' = 0
    /\ pc' = "done"
    /\ UNCHANGED << Env, md5_file, entries, entry_line, lineno, idx, Missing_files,
                    ok_files, failed_files, open_files, hf, actual_hash, hash_calls,
                    digests >>

Next ==
    \/ MainLocate
    \/ MainBanner
    \/ ParseOpen
    \/ ParseLine
    \/ ParseReturn
    \/ MainMissing
    \/ MainHashCall
    \/ Md5Open
    \/ Md5OpenFail
    \/ Md5Read
    \/ Md5ReadFail
    \/ Md5Return
    \/ MainCompare
    \/ MainSummary

Spec == Init /\ [][Next]_vars

-----------------------------------------------------------------------------
(* md5_hash_file on its own: it is called twice on the same file, each     *)
(* time with a chunk-size hint, and the digests it returns are collected.  *)

\* the hints: None, and the integers from -2 to one more than the longest file
HintSet == { << >> } \cup { << n >> : n \in -2..(MaxLen + 1) }

\* available memory, as in whole runs, and 4 bytes (reads of two bytes)
HashMemory == MainMemory \cup { << 0, 4 >> }

InitHash ==
    /\ tree = Node(NameT, "absent", {})
    /\ target_path = Root
    /\ cwd = Root
    /\ manifest = << >>
    /\ disk \in { (PathA :> DiskFile(c, f)) : c \in Contents, f \in { "none", "open", "read" } }
    /\ available_memory \in HashMemory
    /\ hints \in HintSet \X HintSet
    /\ pc = "test"
    /\ Idle

\* md5_hash_file(path, chunk_size) is called with the next hint
TestCall ==
    /\ pc = "test"
    /\ Len(digests) < Len(hints)
    /\ hf' = md5_hash_file_frame(PathA, hints[Len(digests) + 1], "collect")
    /\ pc' = "md5_open"
    /\ UNCHANGED << Env, md5_file, entries, entry_line, lineno, idx, Missing_files,
                    ok_files, failed_files, open_files, actual_hash, output,
                    hash_calls, digests, exit_status >>

\* the caller keeps the digest returned
TestCollect ==
    /\ pc = "collect"
    /\ digests' = Append(digests, actual_hash)
    /\ pc' = IF Len(digests) + 1 = Len(hints) THEN "test_done" ELSE "test"
    /\ UNCHANGED << Env, md5_file, entries, entry_line, lineno, idx, Missing_files,
                    ok_files, failed_files, open_files, hf, actual_hash, output,
                    hash_calls, exit_status >>

NextHash ==
    \/ TestCall
    \/ Md5Open
    \/ Md5OpenFail
    \/ Md5Read
    \/ Md5ReadFail
    \/ Md5Return
    \/ TestCollect

SpecHash == InitHash /\ [][NextHash]_vars

-----------------------------------------------------------------------------
(* find_md5_file on its own, on every tree *)

InitFind ==
    /\ tree \in AllTrees
    /\ target_path = Root \o << tree.name >>
    /\ cwd = Root
    /\ manifest = << >>
    /\ disk = (PathA :> Absent)
    /\ available_memory = << 16, 0 >>
    /\ hints = << >>
    /\ pc = "find"
    /\ Idle

\* md5_file = find_md5_file(target_path)
FindCall ==
    /\ pc = "find"
    /\ md5_file' \in find_md5_file(tree)
    /\ pc' = "found"
    /\ UNCHANGED << Env, entries, entry_line, lineno, idx, Missing_files, ok_files,
                    failed_files, open_files, hf, actual_hash, output, hash_calls,
                    digests, exit_status >>

NextFind == FindCall

SpecFind == InitFind /\ [][NextFind]_vars

-----------------------------------------------------------------------------
(* What the claims are stated in *)

IsResult(m) == m.tag \in { "OK", "FAIL", "MISSING" }

\* the per-entry status lines printed so far, in the order printed
Results == SelectSeq(output, IsResult)

CountTag(tag) == Cardinality({ i \in 1..Len(Results) : Results[i].tag = tag })

\* the file is on disk, read off the disk itself
OnDisk(path) == path \in DOMAIN disk /\ disk[path].kind = "file"

Hashing == pc \in { "md5_open", "md5_loop", "md5_break", "compare" }

\* the checksum as written in the manifest line an entry came from
RawChecksum(i) ==
    LET line == Strip(manifest[entry_line[i]])
    IN  Take(line, Find(line, Separator) - 1)

Printed(tag) == \E k \in 1..Len(output) : output[k].tag = tag

\* C1: once the loop runs, ok_files + failed_files + Missing_files is the
\* number of entries processed so far and each counter is the number of status
\* lines of its kind; at the end the summary shows checked = ok + failed and
\* checked + missing = len(entries).
C1_CountersPartition ==
    /\ idx >= 1 =>
         /\ ok_files + failed_files + Missing_files = idx - 1
         /\ ok_files = CountTag("OK")
         /\ failed_files = CountTag("FAIL")
         /\ Missing_files = CountTag("MISSING")
    /\ pc = "done" =>
         LET summary == output[Len(output)]
         IN  /\ summary.tag = "SUMMARY"
             /\ summary.counts[1] = ok_files + failed_files
             /\ summary.counts[1] + Missing_files = Len(entries)
             /\ summary.counts = << CountTag("OK") + CountTag("FAIL"), Len(entries),
                                    CountTag("OK"), CountTag("FAIL"), CountTag("MISSING") >>

\* C1 witness: a finished run that counted a missing file and a checked one
C1_Witness ==
    /\ pc = "done"
    /\ Missing_files = 1
    /\ ok_files + failed_files = 1

\* C2: an entry whose file is not on disk is classified MISSING, counted in
\* the missing counter alone and never hashed; an entry whose file is on disk
\* is hashed and never classified MISSING.
C2_MissingNeverHashed ==
    /\ \A i \in 1..Len(entries) :
         LET called == \E k \in 1..Len(hash_calls) : hash_calls[k] = i
         IN  /\ ~OnDisk(entries[i][2]) => ~called
             /\ i <= Len(Results) =>
                  /\ Results[i].tag = "MISSING" <=> ~OnDisk(entries[i][2])
                  /\ OnDisk(entries[i][2]) => called
    /\ idx >= 1 =>
         /\ Missing_files = Cardinality({ i \in 1..(idx - 1) : ~OnDisk(entries[i][2]) })
         /\ ok_files + failed_files
              = Cardinality({ i \in 1..(idx - 1) : OnDisk(entries[i][2]) })

\* C2 witness: a missing entry was processed first, then a present one hashed
C2_Witness ==
    /\ pc = "done"
    /\ Len(entries) = 2
    /\ ~OnDisk(entries[1][2])
    /\ OnDisk(entries[2][2])
    /\ hash_calls = << 2 >>

\* C5: an entry whose file exists is OK exactly when the checksum written in
\* the manifest equals, case-insensitively, the digest of the file's content;
\* otherwise it is FAIL and the line reports the lowercased expected checksum
\* and the actual digest; a checksum of another content gives FAIL.
C5_OkIffDigestMatches ==
    \A i \in 1..Len(Results) :
        Results[i].tag # "MISSING" =>
            LET content == disk[entries[i][2]].content
                digest  == HexDigestOf(content)
                raw     == RawChecksum(i)
            IN  /\ Results[i].tag = "OK" <=> Lower(raw) = Lower(digest)
                /\ Results[i].tag = "FAIL" =>
                     /\ Results[i].expected = Lower(raw)
                     /\ Results[i].found = digest
                /\ \A other \in Contents :
                     (other # content /\ Lower(raw) = HexDigestOf(other))
                        => Results[i].tag = "FAIL"

\* C5 witness: a checksum written in upper case matched, and a checksum of
\* another content failed
C5_Witness ==
    \E i, j \in 1..Len(Results) :
        /\ Results[i].tag = "OK"
        /\ RawChecksum(i) # Lower(RawChecksum(i))
        /\ Results[j].tag = "FAIL"
        /\ \E other \in Contents : Lower(RawChecksum(j)) = HexDigestOf(other)

\* C8: at most one file is open at any time; once hashing begins the manifest
\* is fully read and closed; entries are handled one by one in manifest order,
\* each exactly once, whatever the outcomes before it; between two entries no
\* file is open.
C8_Sequential ==
    /\ Cardinality(open_files) <= 1
    /\ (Hashing \/ hash_calls # << >>) =>
         /\ ManifestHandle \notin open_files
         /\ lineno = Len(manifest)
    /\ Hashing => open_files \subseteq { entries[idx][2] }
    /\ pc \in { "loop", "compare", "done" } => open_files = {}
    /\ \A k \in 1..Len(hash_calls) :
         /\ hash_calls[k] <= idx
         /\ k > 1 => hash_calls[k - 1] < hash_calls[k]
    /\ idx >= 1 =>
         /\ Len(Results) = idx - 1
         /\ \A i \in 1..Len(Results) : Results[i].path = entries[i][2]
    /\ pc = "done" => Len(Results) = Len(entries)

\* C8 witness: a finished run that hashed the same entry twice, one after the
\* other
C8_Witness ==
    /\ pc = "done"
    /\ Len(entries) = 2
    /\ entries[1] = entries[2]
    /\ hash_calls = << 1, 2 >>
    /\ Results[1].tag = "FAIL"

C10_AbortedByIo ==
    pc = "crashed" /\ output[Len(output)].tag = "OSError"

C10_State ==
    /\ C10_AbortedByIo =>
         /\ idx \in 1..Len(entries)
         /\ hash_calls[Len(hash_calls)] = idx
         /\ Len(Results) = idx - 1
         /\ ok_files + failed_files + Missing_files = idx - 1
         /\ Len(hash_calls) = CountTag("OK") + CountTag("FAIL") + 1
         /\ ~Printed("SUMMARY")
         /\ open_files = {}
         /\ exit_status = 1
    /\ \A i \in 1..Len(Results) :
         Results[i].tag # "MISSING" => disk[entries[i][2]].fault # "open"
    /\ pc = "compare" => disk[entries[idx][2]].fault # "open"

\* C10: when open() or read() fails in md5_hash_file the error reaches main
\* uncaught and the run ends there: no digest is returned for the entry, the
\* entry is in none of the counters and has no status line, no summary is
\* printed, and nothing runs afterwards; a file that cannot be opened never
\* gets a status.
C10_IoErrorAborts == [] C10_State /\ [][pc # "crashed"]_vars

\* C10 witness: a read failed after part of the file was fed to the digest,
\* with an entry still to come
C10_Witness ==
    /\ C10_AbortedByIo
    /\ hf.md5.fed # << >>
    /\ idx < Len(entries)

\* C4: the process ends with a nonzero status exactly when no manifest was
\* located; with a manifest located it prints the summary and ends with 0.
C4_ExitStatus ==
    exit_status # -1 =>
        /\ exit_status # 0 <=> ~md5_file.found
        /\ md5_file.found => pc = "done" /\ Printed("SUMMARY")

\* the entries the manifest gives when each line is split at its first " *"
RECURSIVE C6_SplitOnceEntries(_)
C6_SplitOnceEntries(lines) ==
    IF lines = << >> THEN << >>
    ELSE LET line == Strip(Head(lines))
             i    == Find(line, Separator)
             rest == C6_SplitOnceEntries(Tail(lines))
         IN  IF line = << >> \/ StartsWith(line, << ";" >>) \/ i = 0 THEN rest
             ELSE << << Lower(Take(line, i - 1)),
                        normpath(ReplaceBackslash(Drop(line, i + 1))) >> >> \o rest

\* C6: the parsed entries are, in line order, one entry for every line that
\* is not blank, not a comment and holds " *", split at the first " *" so that
\* the path is everything after it.
C6_SplitOnce ==
    idx >= 1 => entries = C6_SplitOnceEntries(manifest)

\* C3: two calls of md5_hash_file on the same file, with whatever chunk-size
\* hints, return the same digest.
C3_ChunkSizeIrrelevant ==
    pc = "test_done" => digests[1] = digests[2]

\* C9: when the read loop of md5_hash_file has ended and the digest is
\* returned, the bytes fed to the digest are the file's content, once and in
\* order, and as many as the progress bar counted; an empty file gives the
\* digest of no bytes.
C9_WholeContentHashed ==
    pc = "collect" =>
        /\ hf.md5.fed = disk[hf.path].content
        /\ hf.pbar = Len(disk[hf.path].content)
        /\ actual_hash = HexDigestOf(disk[hf.path].content)

C7_Md5Files(children) == { c \in children : c.kind = "file" /\ EndsWith(c.name, Md5Ext) }

\* what the locator is to return: the target when it is a file named *.md5;
\* for a directory a *.md5 file in it, else a *.md5 file in its md5
\* subdirectory; not found otherwise
C7_Expected(target) ==
    IF target.kind = "file" /\ EndsWith(target.name, Md5Ext)
      THEN { Located(<< >>, "file") }
    ELSE IF target.kind = "dir"
      THEN LET direct == C7_Md5Files(target.children)
               inner  == UNION { C7_Md5Files(c.children) :
                                   c \in { d \in target.children :
                                             d.name = Md5Dir /\ d.kind = "dir" } }
           IN  IF direct # {} THEN { Located(<< c.name >>, "file") : c \in direct }
               ELSE IF inner # {}
                 THEN { Located(<< Md5Dir, c.name >>, "file") : c \in inner }
               ELSE { NotFound }
    ELSE { NotFound }

\* C7: find_md5_file returns the target that is a .md5 file, else for a
\* directory a .md5 file directly inside it, else one inside its md5
\* subdirectory, else not found.
C7_LocatorContract ==
    pc = "found" => md5_file \in C7_Expected(tree)

====
